---------------------------- MODULE Spec2Model ----------------------------
(***************************************************************************)
(* A model of fastqContaminator.py: the input validator, the proportion    *)
(* calculator (with Python's binary64 float arithmetic), and the           *)
(* contamination simulator driving fastq-sample and a cat/rm shell chain.  *)
(***************************************************************************)
EXTENDS Integers, Sequences, FiniteSets, TLC

(***************************************************************************)
(* Multi-limb naturals.  A Python float has a 53-bit significand and the   *)
(* products formed by the script need up to 66 bits, so naturals are kept  *)
(* as little-endian sequences of limbs below Base, without high zero limbs.*)
(***************************************************************************)
RECURSIVE Pow2(_)
Pow2(n) == IF n = 0 THEN 1 ELSE 2 * Pow2(n - 1)

Base == Pow2(15)

RECURSIVE BitLenSmall(_)
BitLenSmall(n) == IF n = 0 THEN 0 ELSE 1 + BitLenSmall(n \div 2)

LimbBits == BitLenSmall(Base - 1)

RECURSIVE BigNorm(_)
BigNorm(x) ==
    IF x = <<>> THEN <<>>
    ELSE IF x[Len(x)] = 0 THEN BigNorm(SubSeq(x, 1, Len(x) - 1))
    ELSE x

RECURSIVE BigFromInt(_)
BigFromInt(n) == IF n = 0 THEN <<>> ELSE <<n % Base>> \o BigFromInt(n \div Base)

RECURSIVE BigToInt(_)
BigToInt(x) == IF x = <<>> THEN 0 ELSE Head(x) + Base * BigToInt(Tail(x))

RECURSIVE BigMulCarry(_, _, _)
BigMulCarry(x, n, c) ==
    IF x = <<>> THEN BigFromInt(c)
    ELSE LET t == Head(x) * n + c
         IN  <<t % Base>> \o BigMulCarry(Tail(x), n, t \div Base)

\* x * n for 0 <= n <= Base
BigMulSmall(x, n) == BigNorm(BigMulCarry(x, n, 0))

\* [q, r] with x = q * d + r, for 0 < d <= Base (q not normalised)
RECURSIVE BigDivRaw(_, _)
BigDivRaw(x, d) ==
    IF x = <<>> THEN [q |-> <<>>, r |-> 0]
    ELSE LET hi == BigDivRaw(Tail(x), d)
             t  == hi.r * Base + Head(x)
         IN  [q |-> <<t \div d>> \o hi.q, r |-> t % d]

BigDivSmall(x, d) ==
    LET raw == BigDivRaw(x, d) IN [q |-> BigNorm(raw.q), r |-> raw.r]

RECURSIVE BigShiftLeft(_, _)
BigShiftLeft(x, s) ==
    IF x = <<>> THEN <<>>
    ELSE IF s >= LimbBits THEN <<0>> \o BigShiftLeft(x, s - LimbBits)
    ELSE BigMulSmall(x, Pow2(s))

\* [q, sticky]: q = floor(x / 2^s), sticky = (x is not a multiple of 2^s)
RECURSIVE BigShiftRight(_, _)
BigShiftRight(x, s) ==
    IF x = <<>> THEN [q |-> <<>>, sticky |-> FALSE]
    ELSE IF s >= LimbBits
         THEN LET rest == BigShiftRight(Tail(x), s - LimbBits)
              IN  [q |-> rest.q, sticky |-> rest.sticky \/ Head(x) # 0]
    ELSE LET d == BigDivSmall(x, Pow2(s))
         IN  [q |-> d.q, sticky |-> d.r # 0]

BigBitLen(x) ==
    IF x = <<>> THEN 0 ELSE LimbBits * (Len(x) - 1) + BitLenSmall(x[Len(x)])

RECURSIVE BigAddCarry(_, _)
BigAddCarry(x, c) ==
    IF c = 0 THEN x
    ELSE IF x = <<>> THEN <<c>>
    ELSE LET t == Head(x) + c
         IN  <<t % Base>> \o BigAddCarry(Tail(x), t \div Base)

\* x - y for x >= y (b is the borrow)
RECURSIVE BigSubBorrow(_, _, _)
BigSubBorrow(x, y, b) ==
    IF x = <<>> THEN <<>>
    ELSE LET yh == IF y = <<>> THEN 0 ELSE Head(y)
             yt == IF y = <<>> THEN <<>> ELSE Tail(y)
             t  == Head(x) - yh - b
         IN  IF t < 0 THEN <<t + Base>> \o BigSubBorrow(Tail(x), yt, 1)
             ELSE <<t>> \o BigSubBorrow(Tail(x), yt, 0)

BigSub(x, y) == BigNorm(BigSubBorrow(x, y, 0))

(***************************************************************************)
(* Python floats (IEEE 754 binary64, round to nearest, ties to even).  A   *)
(* float is [m, e], the value m * 2^e with m at most MantBits bits long.   *)
(***************************************************************************)
MantBits == 53

\* The float nearest to x * 2^e (+ a fraction below one unit when sticky0).
RoundToFloat(x, sticky0, e) ==
    LET len == BigBitLen(x)
    IN  IF len <= MantBits THEN [m |-> x, e |-> e]
        ELSE LET s    == len - MantBits
                 sh   == BigShiftRight(x, s - 1)
                 half == BigDivSmall(sh.q, 2)
                 up   == half.r = 1
                         /\ (sh.sticky \/ sticky0 \/ (half.q # <<>> /\ half.q[1] % 2 = 1))
             IN  [m |-> IF up THEN BigAddCarry(half.q, 1) ELSE half.q, e |-> e + s]

\* float("num/den" written as a decimal), argparse's type=float; den <= Base
\* (the quotient is taken with 5 guard limbs, far more than MantBits bits)
FloatOfDecimal(num, den) ==
    LET guard == 5 * LimbBits
        d     == BigDivSmall(BigShiftLeft(BigFromInt(num), guard), den)
    IN  RoundToFloat(d.q, d.r # 0, 0 - guard)

\* 1 - x for a float 0 <= x <= 1
FloatOneMinus(x) ==
    IF x.e >= 0 THEN [m |-> BigSub(<<1>>, BigShiftLeft(x.m, x.e)), e |-> 0]
    ELSE RoundToFloat(BigSub(BigShiftLeft(<<1>>, 0 - x.e), x.m), FALSE, x.e)

\* n * x for an int 0 <= n <= Base and a float x
FloatMulInt(n, x) == RoundToFloat(BigMulSmall(x.m, n), FALSE, x.e)

\* int(x) for a float x >= 0
FloatToInt(x) ==
    IF x.e >= 0 THEN BigToInt(BigShiftLeft(x.m, x.e))
    ELSE BigToInt(BigShiftRight(x.m, 0 - x.e).q)

(***************************************************************************)
(* Bounds of the model and the command lines it draws.                     *)
(***************************************************************************)
MaxLines == 100
MaxProps == 2
MaxTotalLines == 100

\* -p values, written as the thousandths typed on the command line
\* (0.101, 0.109, 0.29)
PropChoices == {101, 109, 290}
AllProps == 1..500
Seeds == {5, 11}
SampleLineChoices == {MaxLines \div 2, MaxLines}
ContaminantLineChoices == {MaxLines \div 4, MaxLines \div 2}
Names == {"s_R1.fastq", "s_R2.fastq", "c_R1.fastq", "c_R2.fastq"}

RECURSIVE SeqsUpTo(_, _)
SeqsUpTo(S, n) ==
    IF n = 0 THEN {<<>>}
    ELSE LET shorter == SeqsUpTo(S, n - 1)
         IN  shorter \cup {Append(s, x) : s \in shorter, x \in S}

VARIABLES
    sampleReads1, sampleReads2,           \* args.sampleFiles
    contaminantReads1, contaminantReads2, \* args.contaminantFiles
    proportionContaminant,                \* args.proportionContaminant
    seedNum,                              \* args.seed
    lines,            \* the input files: name -> number of lines
    fs,               \* the files the run has made: name -> content
    pc,               \* position in the script
    idx,              \* position of the for loop in proportionContaminant
    numOfLines, numOfSampleReads, numOfContaminantReads,
    calls,            \* the subprocess.call()s made, with their return codes
    written,          \* the output files opened for writing, with the loop position
    stdout,           \* what the script printed
    exitStatus        \* the exit status of the process, -1 while it runs

inputs == <<sampleReads1, sampleReads2, contaminantReads1, contaminantReads2,
            proportionContaminant, seedNum, lines>>
counts == <<numOfLines, numOfSampleReads, numOfContaminantReads>>
vars == <<inputs, fs, pc, idx, counts, calls, written, stdout, exitStatus>>

Running == 0 - 1

\* sys.exit() without an argument
SysExitStatus == 0

\* the float argparse makes of a -p value
PropFloat(p) == FloatOfDecimal(p, 1000)

(***************************************************************************)
(* The functions of the script.                                            *)
(***************************************************************************)
countFileLines(myFile) == lines[myFile]

\* the message checkInputFiles prints before it exits, "" when it returns
checkInputFiles_samplesOnly(s1, s2, c1, c2) ==
    IF countFileLines(s1) # countFileLines(s2)
    THEN "The 2 paired-end sample files provided have a different number of reads/lines."
    ELSE ""

checkInputFiles(s1, s2, c1, c2) ==
    IF countFileLines(s1) # countFileLines(s2)
    THEN "The 2 paired-end sample files provided have a different number of reads/lines."
    ELSE IF countFileLines(c1) # countFileLines(c2)
    THEN "The 2 paired-end contamination files provided have different number of reads/lines."
    ELSE ""

\* int(numOfLines * (1 - proportionContaminant))
SampleLines_usesP(n, p) == FloatToInt(FloatMulInt(n, PropFloat(p)))

SampleLines(n, p) == FloatToInt(FloatMulInt(n, FloatOneMinus(PropFloat(p))))

\* int(numOfLines * proportionContaminant)
ContaminantLines(n, p) == FloatToInt(FloatMulInt(n, PropFloat(p)))

\* int(x / 4) on Python 2 ints
ReadsOf(numLines) == numLines \div 4

\* the sizing check of calculateLinesRequired
ContaminantTooSmall_comparesReads(c1, numOfContaminantLines) ==
    countFileLines(c1) < ReadsOf(numOfContaminantLines)

ContaminantTooSmall(c1, numOfContaminantLines) ==
    countFileLines(c1) < numOfContaminantLines

calculateLinesRequired(s1, c1, p) ==
    LET n      == countFileLines(s1)
        sLines == SampleLines(n, p)
        cLines == ContaminantLines(n, p)
    IN  [numOfLines |-> n,
         numOfSampleLines |-> sLines,
         numOfSampleReads |-> ReadsOf(sLines),
         numOfContaminantLines |-> cLines,
         numOfContaminantReads |-> ReadsOf(cLines),
         tooSmall |-> ContaminantTooSmall(c1, cLines)]

\* int((proportionContaminant * 100)), evaluated once for each -p value
PercentOf == [p \in AllProps |-> FloatToInt(FloatMulInt(100, PropFloat(p)))]

Percent(p) == PercentOf[p]

TempSample(p) == "temp_sample" \o ToString(Percent(p))
TempContaminant(p) == "temp_contaminant" \o ToString(Percent(p))
SamplerOutput(prefix, mate) == prefix \o "." \o ToString(mate) \o ".fastq"
OutputName(p, sampleFile) == "conPercent" \o ToString(Percent(p)) \o "_" \o sampleFile

\* the command line sampleFastqReads builds
fastqSampleCommand_swapsCountAndSeed(file1, file2, seed, numOfLinesRequired, myPrefix) ==
    [tool |-> "fastq-sample", n |-> seed, o |-> myPrefix, s |-> numOfLinesRequired,
     file1 |-> file1, file2 |-> file2]

fastqSampleCommand(file1, file2, seed, numOfLinesRequired, myPrefix) ==
    [tool |-> "fastq-sample", n |-> numOfLinesRequired, o |-> myPrefix, s |-> seed,
     file1 |-> file1, file2 |-> file2]

\* What fastq-sample leaves in <prefix>.<mate>.fastq: cmd.n read records of
\* the mate file, picked as (n, seed, the two files) determine.
Subsample(cmd, mate) ==
    [from |-> IF mate = 1 THEN cmd.file1 ELSE cmd.file2,
     reads |-> cmd.n, seed |-> cmd.s, pair |-> <<cmd.file1, cmd.file2>>]

\* the files after fastq-sample ran: both outputs when it returns 0, nothing
\* new when it fails
RunSampler(files, cmd, rc) ==
    IF rc = 0
    THEN [f \in {SamplerOutput(cmd.o, 1), SamplerOutput(cmd.o, 2)} |->
             <<Subsample(cmd, IF f = SamplerOutput(cmd.o, 1) THEN 1 ELSE 2)>>]
         @@ files
    ELSE files

\* the shell line simulateContamination builds:
\*   cat a b > out1 && cat c d > out2 && rm ...
concatCommand_contaminantFirst(s1, s2, p) ==
    LET ts == TempSample(p)
        tc == TempContaminant(p)
    IN  [cat1 |-> [from |-> <<SamplerOutput(tc, 1), SamplerOutput(ts, 1)>>,
                   to |-> OutputName(p, s1)],
         cat2 |-> [from |-> <<SamplerOutput(tc, 2), SamplerOutput(ts, 2)>>,
                   to |-> OutputName(p, s2)],
         rm   |-> <<SamplerOutput(ts, 1), SamplerOutput(tc, 1),
                    SamplerOutput(ts, 2), SamplerOutput(tc, 2)>>]

concatCommand_keepsOneTemp(s1, s2, p) ==
    LET ts == TempSample(p)
        tc == TempContaminant(p)
    IN  [cat1 |-> [from |-> <<SamplerOutput(ts, 1), SamplerOutput(tc, 1)>>,
                   to |-> OutputName(p, s1)],
         cat2 |-> [from |-> <<SamplerOutput(ts, 2), SamplerOutput(tc, 2)>>,
                   to |-> OutputName(p, s2)],
         rm   |-> <<SamplerOutput(ts, 1), SamplerOutput(tc, 1),
                    SamplerOutput(ts, 2)>>]

concatCommand(s1, s2, p) ==
    LET ts == TempSample(p)
        tc == TempContaminant(p)
    IN  [cat1 |-> [from |-> <<SamplerOutput(ts, 1), SamplerOutput(tc, 1)>>,
                   to |-> OutputName(p, s1)],
         cat2 |-> [from |-> <<SamplerOutput(ts, 2), SamplerOutput(tc, 2)>>,
                   to |-> OutputName(p, s2)],
         rm   |-> <<SamplerOutput(ts, 1), SamplerOutput(tc, 1),
                    SamplerOutput(ts, 2), SamplerOutput(tc, 2)>>]

SeqRange(s) == {s[i] : i \in 1..Len(s)}

\* cat f g > to: the shell truncates `to`, cat copies the files that exist
\* and fails when one is missing
RunCat(files, cat) ==
    LET part(f) == IF f \in DOMAIN files THEN files[f] ELSE <<>>
    IN  [fs |-> (cat.to :> part(cat.from[1]) \o part(cat.from[2])) @@ files,
         rc |-> IF SeqRange(cat.from) \subseteq DOMAIN files THEN 0 ELSE 1]

\* rm f ...: removes the files that exist and fails when one is missing;
\* when rm itself is denied (fault) nothing is removed
RunRm(files, names, fault) ==
    IF fault THEN [fs |-> files, rc |-> 1]
    ELSE [fs |-> [f \in DOMAIN files \ SeqRange(names) |-> files[f]],
          rc |-> IF SeqRange(names) \subseteq DOMAIN files THEN 0 ELSE 1]

\* the && chain: a step runs only when the steps before it returned 0
RunShell(files, cmd, rmFault) ==
    LET c1 == RunCat(files, cmd.cat1)
        c2 == RunCat(c1.fs, cmd.cat2)
        r  == RunRm(c2.fs, cmd.rm, rmFault)
    IN  IF c1.rc # 0 THEN [fs |-> c1.fs, rc |-> c1.rc, opened |-> {cmd.cat1.to}]
        ELSE IF c2.rc # 0
        THEN [fs |-> c2.fs, rc |-> c2.rc, opened |-> {cmd.cat1.to, cmd.cat2.to}]
        ELSE [fs |-> r.fs, rc |-> r.rc, opened |-> {cmd.cat1.to, cmd.cat2.to}]

(***************************************************************************)
(* The script as a state machine.                                          *)
(***************************************************************************)
\* the line counts of the four input files: each mate 2 has as many lines as
\* its mate 1, or one read more
InputLines(c1, c2) ==
    {[f \in Names |-> CASE f = "s_R1.fastq" -> s
                       [] f = "s_R2.fastq" -> s + ds
                       [] f = "c_R1.fastq" -> c
                       [] OTHER -> c + dc] :
        s \in SampleLineChoices, ds \in {0, 4},
        c \in ContaminantLineChoices, dc \in IF c2 = c1 THEN {0} ELSE {0, 4}}

Start ==
    /\ fs = <<>>
    /\ idx = 1
    /\ numOfLines = 0
    /\ numOfSampleReads = 0
    /\ numOfContaminantReads = 0
    /\ calls = <<>>
    /\ written = {}
    /\ stdout = <<>>
    /\ exitStatus = Running

\* the state after argument parsing (lines 36, 111-119)
Init ==
    /\ sampleReads1 = "s_R1.fastq"
    /\ sampleReads2 = "s_R2.fastq"
    /\ contaminantReads1 = "c_R1.fastq"
    /\ contaminantReads2 \in {"c_R1.fastq", "c_R2.fastq"}
    /\ proportionContaminant \in SeqsUpTo(PropChoices, MaxProps)
    /\ seedNum \in Seeds
    /\ lines \in InputLines(contaminantReads1, contaminantReads2)
    /\ pc = "check"
    /\ Start

\* line 122
CheckInputFiles ==
    /\ pc = "check"
    /\ LET msg == checkInputFiles(sampleReads1, sampleReads2,
                                  contaminantReads1, contaminantReads2)
       IN  IF msg # ""
           THEN /\ stdout' = Append(stdout, msg)
                /\ exitStatus' = SysExitStatus
                /\ pc' = "exited"
           ELSE /\ pc' = "loop"
                /\ UNCHANGED <<stdout, exitStatus>>
    /\ UNCHANGED <<inputs, fs, idx, counts, calls, written>>

\* lines 125-129: the next proportion of the for loop
CalculateLinesRequired ==
    /\ pc = "loop"
    /\ idx <= Len(proportionContaminant)
    /\ LET r == calculateLinesRequired(sampleReads1, contaminantReads1,
                                       proportionContaminant[idx])
       IN  IF r.tooSmall
           THEN /\ stdout' = Append(stdout,
                       [msg |-> "Contamination file too small",
                        lines |-> r.numOfContaminantLines,
                        proportion |-> proportionContaminant[idx]])
                /\ exitStatus' = SysExitStatus
                /\ pc' = "exited"
                /\ UNCHANGED counts
           ELSE /\ numOfLines' = r.numOfLines
                /\ numOfSampleReads' = r.numOfSampleReads
                /\ numOfContaminantReads' = r.numOfContaminantReads
                /\ pc' = "sample"
                /\ UNCHANGED <<stdout, exitStatus>>
    /\ UNCHANGED <<inputs, fs, idx, calls, written>>

\* line 92: fastq-sample on the sample pair; its return code is dropped
SampleFromSample ==
    /\ pc = "sample"
    /\ \E rc \in {0, 1} :
        LET cmd == fastqSampleCommand(sampleReads1, sampleReads2, seedNum,
                       numOfSampleReads, TempSample(proportionContaminant[idx]))
        IN  /\ fs' = RunSampler(fs, cmd, rc)
            /\ calls' = Append(calls, [idx |-> idx, step |-> "sample",
                                       cmd |-> cmd, rc |-> rc])
    /\ pc' = "contaminate"
    /\ UNCHANGED <<inputs, idx, counts, written, stdout, exitStatus>>

\* line 95: fastq-sample on the contaminant pair; its return code is dropped
SampleFromContaminant ==
    /\ pc = "contaminate"
    /\ \E rc \in {0, 1} :
        LET cmd == fastqSampleCommand(contaminantReads1, contaminantReads2, seedNum,
                       numOfContaminantReads,
                       TempContaminant(proportionContaminant[idx]))
        IN  /\ fs' = RunSampler(fs, cmd, rc)
            /\ calls' = Append(calls, [idx |-> idx, step |-> "contaminant",
                                       cmd |-> cmd, rc |-> rc])
    /\ pc' = "concat"
    /\ UNCHANGED <<inputs, idx, counts, written, stdout, exitStatus>>

\* lines 98-105 and the loop's step: the cat/cat/rm line; the value
\* simulateContamination returns is dropped by the caller (line 132)
Concatenate ==
    /\ pc = "concat"
    /\ \E rmFault \in BOOLEAN :
        LET cmd == concatCommand(sampleReads1, sampleReads2,
                                 proportionContaminant[idx])
            out == RunShell(fs, cmd, rmFault)
        IN  /\ fs' = out.fs
            /\ calls' = Append(calls, [idx |-> idx, step |-> "concat",
                                       cmd |-> cmd, rc |-> out.rc])
            /\ written' = written \cup {[file |-> f, idx |-> idx] : f \in out.opened}
    /\ idx' = idx + 1
    /\ pc' = "loop"
    /\ UNCHANGED <<inputs, counts, stdout, exitStatus>>

\* the for loop is exhausted: the script runs off its end
Finish ==
    /\ pc = "loop"
    /\ idx > Len(proportionContaminant)
    /\ pc' = "done"
    /\ exitStatus' = 0
    /\ UNCHANGED <<inputs, fs, idx, counts, calls, written, stdout>>

Next ==
    \/ CheckInputFiles
    \/ CalculateLinesRequired
    \/ SampleFromSample
    \/ SampleFromContaminant
    \/ Concatenate
    \/ Finish

Spec == Init /\ [][Next]_vars

(***************************************************************************)
(* The proportion calculator on its own: every sample size up to           *)
(* MaxTotalLines and the 4000 lines of the documented scenario, every      *)
(* proportion 0.001 .. 0.500, a contaminant pair as large as the sample.   *)
(***************************************************************************)
InitCalc ==
    /\ sampleReads1 = "s_R1.fastq"
    /\ sampleReads2 = "s_R2.fastq"
    /\ contaminantReads1 = "c_R1.fastq"
    /\ contaminantReads2 = "c_R2.fastq"
    /\ proportionContaminant \in {<<p>> : p \in AllProps}
    /\ seedNum = 5
    /\ \E n \in (0..MaxTotalLines) \cup {4000} :
          lines = [f \in Names |-> n]
    /\ pc = "loop"
    /\ Start

SpecCalc == InitCalc /\ [][CalculateLinesRequired]_vars

(***************************************************************************)
(* Properties.                                                             *)
(***************************************************************************)
Mismatch ==
    \/ lines[sampleReads1] # lines[sampleReads2]
    \/ lines[contaminantReads1] # lines[contaminantReads2]

AllCallsOk == \A i \in 1..Len(calls) : calls[i].rc = 0

\* the three commands of the proportion just processed all returned 0
JustProcessed ==
    /\ pc \in {"loop", "done"}
    /\ Len(calls) >= 3
    /\ \A i \in (Len(calls) - 2)..Len(calls) : calls[i].rc = 0

LastProp == proportionContaminant[idx - 1]

\* C1: the process ends with status 0 only after every requested proportion
\* was processed; every termination by a mate mismatch or by a contaminant
\* file that is too small ends with a non-zero status.
C1_FailureExitsNonZero ==
    /\ pc = "exited" => exitStatus # 0
    /\ exitStatus = 0 => (pc = "done" /\ idx > Len(proportionContaminant))

\* C2: when the two sample files or the two contaminant files differ in
\* line count, the run stops in the validator: no command is ever run and
\* no temporary or output file is ever written, whatever proportions are
\* requested.
C2_MismatchStopsBeforeAnyWork ==
    Mismatch => /\ calls = <<>>
                /\ DOMAIN fs = {}
                /\ written = {}
                /\ pc \in {"check", "exited"}

C2_Witness ==
    /\ pc = "exited"
    /\ lines[sampleReads1] = lines[sampleReads2]
    /\ lines[contaminantReads1] # lines[contaminantReads2]
    /\ Len(proportionContaminant) >= 2

\* C3 as stated: a run that requests, anywhere in its list, a proportion
\* for which the contaminant file has fewer than floor(totalLines * p)
\* lines writes no output file at all.
C3_TooSmallAnywhereWritesNothing ==
    (\E i \in 1..Len(proportionContaminant) :
        lines[contaminantReads1]
            < (lines[sampleReads1] * proportionContaminant[i]) \div 1000)
    => written = {}

\* the contaminant lines the script computes for the sample sizes and the
\* proportions of the runs, evaluated once
NeededLines ==
    [n \in SampleLineChoices, p \in PropChoices |-> ContaminantLines(n, p)]

\* the sizing test as the script computes it, for the i-th proportion
TooSmallAt(i) ==
    lines[contaminantReads1]
        < NeededLines[lines[sampleReads1], proportionContaminant[i]]

\* C3 as amended: the run stops at the first proportion of the list whose
\* computed contaminant line count exceeds the contaminant file: no command
\* is run and no output is written for it or for any later proportion, and
\* the run never completes normally (the outputs of earlier proportions
\* stay written).
C3_AbortsAtFirstTooSmall ==
    \A i \in 1..Len(proportionContaminant) :
        TooSmallAt(i) =>
            /\ idx <= i
            /\ pc # "done"
            /\ (idx = i => pc \in {"check", "loop", "exited"})
            /\ \A k \in 1..Len(calls) : calls[k].idx < i
            /\ \A w \in written : w.idx < i

C3_Witness ==
    /\ pc = "exited"
    /\ idx = 2
    /\ TooSmallAt(2)
    /\ written # {}

\* C4: when fastq-sample or the cat/rm line returns non-zero, the failure
\* is not masked: no further command is run after it and the run does not
\* end as a success.
C4_ToolFailureStopsTheRun ==
    /\ \A i \in 1..Len(calls) : calls[i].rc # 0 => i = Len(calls)
    /\ (pc = "done" /\ exitStatus = 0) => AllCallsOk

\* C5: for every sample line count and every proportion in (0, 0.5] the
\* computed read counts satisfy
\*   totalReads - 1 <= sampleReads + contamReads <= totalReads,
\* and 4000 lines at 0.2 give 800 and 200 reads.
C5_ReadCountsWithinOneRead ==
    pc = "sample" =>
        /\ (numOfLines \div 4) - 1 <= numOfSampleReads + numOfContaminantReads
        /\ numOfSampleReads + numOfContaminantReads <= numOfLines \div 4
        /\ (numOfLines = 4000 /\ proportionContaminant = <<200>>)
               => (numOfSampleReads = 800 /\ numOfContaminantReads = 200)

C5_Witness ==
    /\ pc = "sample"
    /\ numOfLines % 4 = 0
    /\ numOfLines > 0
    /\ numOfSampleReads + numOfContaminantReads = (numOfLines \div 4) - 1

\* C6: two different requested proportions of one run never write the same
\* output file.
C6_DistinctProportionsDistinctOutputs ==
    \A w1, w2 \in written :
        w1.file = w2.file
            => proportionContaminant[w1.idx] = proportionContaminant[w2.idx]

\* pct is a nearest integer to p * 100, p given in thousandths
NearestPercent(p, pct) == 10 * pct - p <= 5 /\ p - 10 * pct <= 5

\* C7: the integer percentage in the temporary prefixes and in the output
\* names of a proportion p is round(p * 100), the nearest integer to p * 100.
C7_NamesEncodeRoundedPercent ==
    \A i \in 1..Len(calls) :
        \E pct \in 0..100 :
            /\ NearestPercent(proportionContaminant[calls[i].idx], pct)
            /\ calls[i].step = "sample"
                   => calls[i].cmd.o = "temp_sample" \o ToString(pct)
            /\ calls[i].step = "contaminant"
                   => calls[i].cmd.o = "temp_contaminant" \o ToString(pct)
            /\ calls[i].step = "concat"
                   => /\ calls[i].cmd.cat1.to
                           = "conPercent" \o ToString(pct) \o "_" \o sampleReads1
                      /\ calls[i].cmd.cat2.to
                           = "conPercent" \o ToString(pct) \o "_" \o sampleReads2

\* the subsample of numReads reads that fastq-sample takes from `from`
Expected(from, numReads, file1, file2) ==
    [from |-> from, reads |-> numReads, seed |-> seedNum, pair |-> <<file1, file2>>]

\* C8: after a proportion is processed, the output of mate k is the sample
\* subsample of mate k (numOfSampleReads reads) followed by the contaminant
\* subsample of mate k (numOfContaminantReads reads), and nothing else.
C8_OutputIsSampleThenContaminant ==
    JustProcessed =>
        /\ fs[OutputName(LastProp, sampleReads1)]
             = << Expected(sampleReads1, numOfSampleReads,
                           sampleReads1, sampleReads2),
                  Expected(contaminantReads1, numOfContaminantReads,
                           contaminantReads1, contaminantReads2) >>
        /\ fs[OutputName(LastProp, sampleReads2)]
             = << Expected(sampleReads2, numOfSampleReads,
                           sampleReads1, sampleReads2),
                  Expected(contaminantReads2, numOfContaminantReads,
                           contaminantReads1, contaminantReads2) >>

C8_Witness ==
    /\ JustProcessed
    /\ idx = 3
    /\ numOfContaminantReads > 0
    /\ contaminantReads1 # contaminantReads2

\* C9: every fastq-sample call of a run gets the seed of the command line,
\* the sample and the contaminant call alike, and the same proportion of
\* the same inputs always yields the same commands (the same read counts,
\* prefixes and files).
C9_SameSeedSameCommands ==
    /\ \A i \in 1..Len(calls) :
           calls[i].step \in {"sample", "contaminant"} => calls[i].cmd.s = seedNum
    /\ \A i, j \in 1..Len(calls) :
           (/\ calls[i].step = calls[j].step
            /\ proportionContaminant[calls[i].idx]
                  = proportionContaminant[calls[j].idx])
           => calls[i].cmd = calls[j].cmd

C9_Witness ==
    /\ Len(calls) >= 5
    /\ AllCallsOk
    /\ proportionContaminant[1] = proportionContaminant[2]
    /\ calls[5].step = "contaminant"
    /\ calls[5].cmd.n > 0

TempFiles(p) ==
    {SamplerOutput(prefix, mate) :
        prefix \in {TempSample(p), TempContaminant(p)}, mate \in {1, 2}}

\* C10: once the two sampler calls and the concatenation of a proportion
\* have succeeded, none of its four temporary files exists and both its
\* output files exist; while every command so far succeeded, the only files
\* between proportions and at the end of the run are output files.
C10_TempsGoneAfterProportion ==
    /\ JustProcessed =>
          /\ TempFiles(LastProp) \cap DOMAIN fs = {}
          /\ {OutputName(LastProp, sampleReads1),
              OutputName(LastProp, sampleReads2)} \subseteq DOMAIN fs
    /\ (AllCallsOk /\ pc \in {"loop", "done"}) =>
          DOMAIN fs \subseteq
              {OutputName(proportionContaminant[i], s) :
                  i \in 1..Len(proportionContaminant),
                  s \in {sampleReads1, sampleReads2}}

C10_Witness ==
    /\ pc = "done"
    /\ Len(proportionContaminant) >= 2
    /\ Len(calls) = 3 * Len(proportionContaminant)
    /\ AllCallsOk
=============================================================================
